---- MODULE Spec2Model ----
(***************************************************************************)
(* Model of rl_bin_packing's 2D container (container/two_d.py): the        *)
(* Container aggregate with its shipment list and int8 occupancy grid,     *)
(* the pack operation and the query properties.                            *)
(* BinPackingEnv (environments/two_d.py) wraps a container: reset, step    *)
(* with its reward and termination test.                                   *)
(*                                                                         *)
(* Numbers: placement coordinates, dimensions and weights are Python ints. *)
(* The values produced by true division (centre of gravity, degree of      *)
(* filling, distance) are modelled as exact rationals [n, d] in lowest     *)
(* terms; Python computes them in binary64.                                *)
(***************************************************************************)
EXTENDS Integers, Sequences, FiniteSets

\* ---------------------------------------------------------------- bounds
\* Container(length, height) is constructed with 1..MaxLength x 1..MaxHeight.
MaxLength == 2
MaxHeight == 1
\* Spec: pack coordinates range over 0..length-1 and -NegCoord..height-1.
NegCoord == 1
\* Number of pack calls explored by Spec.
MaxPacks == 2
\* SpecQuery: pack coordinates range over -WideCoord..length and
\* 0..height-1, and at most QueryPacks pack calls are made.
WideCoord == 2
QueryPacks == 1
\* SpecDeep: number of pack calls onto the same cell.
DeepPacks == 128
\* SpecEnv: BinPackingEnv is constructed with 1..MaxEnvShipments shipments,
\* and at most EnvSteps step calls are made in an episode.
MaxEnvShipments == 2
EnvSteps == 3

\* np.int8 (two_d.py:188): values -Int8Half .. Int8Half - 1.
Int8Half == 128

VARIABLES
    length,     \* Container.length
    height,     \* Container.height
    shipments,  \* Container.shipments : list[PackedShipment]
    map,        \* Container.map : np.ndarray[length, height] of int8
    ret,        \* outcome of the last call on the container or environment
    env_shipments,        \* BinPackingEnv.shipments : list[Shipment]
    available_shipments   \* BinPackingEnv.available_shipments : int8 array

vars ==
    <<length, height, shipments, map, ret, env_shipments, available_shipments>>

\* ------------------------------------------------------- value types
\* @dataclass(frozen=True) class Shipment
Shipment(l, h, w, id) ==
    [length |-> l, height |-> h, weight |-> w,
     stackable |-> TRUE, rotatable |-> FALSE, identifier |-> id]

\* Shipment.volume
volume(s) == s.length * s.height

\* The shipments the driver hands to pack.  Weight 0 is accepted by the
\* dataclass (no range check).
Shipments ==
    { Shipment(1, 1, 1, "a"), Shipment(2, 1, 2, "b"), Shipment(1, 2, 0, "c") }

\* @dataclass class Position
Position(x, y) == [x |-> x, y |-> y]

\* @dataclass class PackedShipment
PackedShipment(s, p) == [shipment |-> s, position |-> p]

\* ------------------------------------------------- exact rational numbers
Abs(i) == IF i < 0 THEN -i ELSE i

Min(a, b) == IF a <= b THEN a ELSE b

Max(a, b) == IF a >= b THEN a ELSE b

RECURSIVE GCD(_, _)
GCD(a, b) == IF b = 0 THEN a ELSE GCD(b, a % b)

\* n/d in lowest terms with positive denominator (d # 0).
Rat(n, d) ==
    LET g == GCD(Abs(n), Abs(d))
        sg == IF d < 0 THEN -1 ELSE 1
    IN  [n |-> sg * (n \div g), d |-> sg * (d \div g)]

RatOfInt(i) == [n |-> i, d |-> 1]

RatAdd(a, b) == Rat(a.n * b.d + b.n * a.d, a.d * b.d)

RatSub(a, b) == Rat(a.n * b.d - b.n * a.d, a.d * b.d)

RatMulInt(a, i) == Rat(a.n * i, a.d)

\* Results of calls: a value, or the exception raised.
Ok(v) == [ok |-> TRUE, val |-> v]

Raise(e) == [ok |-> FALSE, val |-> e]

\* Python's a / i on numbers: ZeroDivisionError when i = 0.
TrueDiv(a, i) ==
    IF i = 0 THEN Raise("ZeroDivisionError") ELSE Ok(Rat(a.n, a.d * i))

\* Position.__add__
Position_add(p, q) == Position(RatAdd(p.x, q.x), RatAdd(p.y, q.y))

\* Position.__mul__
Position_mul(p, i) == Position(RatMulInt(p.x, i), RatMulInt(p.y, i))

\* Position.__truediv__: x is divided first, so a zero divisor raises there.
Position_truediv(p, i) ==
    LET qx == TrueDiv(p.x, i)
        qy == TrueDiv(p.y, i)
    IN  IF ~qx.ok THEN qx
        ELSE IF ~qy.ok THEN qy
        ELSE Ok(Position(qx.val, qy.val))

\* Mutant: the corner is not doubled before the halving, (x + length) / 2.
PackedShipment_center_of_gravity_halved_corner(ps) ==
    Position(Rat(ps.position.x + ps.shipment.length, 2),
             Rat(ps.position.y + ps.shipment.height, 2))

\* PackedShipment.center_of_gravity
PackedShipment_center_of_gravity(ps) ==
    Position(Rat(ps.position.x * 2 + ps.shipment.length, 2),
             Rat(ps.position.y * 2 + ps.shipment.height, 2))

\* ------------------------------------------------------------ Container
\* The Container object as a value; the variables hold its fields.
self == [length |-> length, height |-> height, shipments |-> shipments, map |-> map]

\* Container._init_map: np.zeros(shape=[length, height], dtype=np.int8)
init_map(l, h) == [c \in (0 .. l - 1) \X (0 .. h - 1) |-> 0]

\* Container.__init__
Container(l, h) ==
    [length |-> l, height |-> h, shipments |-> <<>>, map |-> init_map(l, h)]

\* Container.total_volume
total_volume(c) == c.length * c.height

\* sum(s.shipment.volume for s in shipments)
RECURSIVE SumVolume(_)
SumVolume(ss) ==
    IF ss = <<>> THEN 0 ELSE volume(Head(ss).shipment) + SumVolume(Tail(ss))

\* Mutant: the remaining volume is clamped at zero.
remaining_volume_clamped(c) == Max(0, total_volume(c) - SumVolume(c.shipments))

\* Container.remaining_volume
remaining_volume(c) == total_volume(c) - SumVolume(c.shipments)

\* Container.degree_of_filling
degree_of_filling(c) ==
    TrueDiv(RatOfInt(remaining_volume(c)), total_volume(c))

\* sum(ps.shipment.weight for ps in shipments)
RECURSIVE SumWeight(_)
SumWeight(ss) ==
    IF ss = <<>> THEN 0 ELSE Head(ss).shipment.weight + SumWeight(Tail(ss))

\* Container.weight
weight(c) == SumWeight(c.shipments)

\* The loop of Container.center_of_gravity: cog += ps.center_of_gravity * w
RECURSIVE CogLoop(_, _)
CogLoop(cog, ss) ==
    IF ss = <<>> THEN cog
    ELSE CogLoop(Position_add(cog,
                     Position_mul(PackedShipment_center_of_gravity(Head(ss)),
                                  Head(ss).shipment.weight)),
                 Tail(ss))

\* Mutant: the empty or weightless container answers the origin as a
\* sentinel instead of dividing.
center_of_gravity_sentinel(c) ==
    IF weight(c) = 0
    THEN Ok(Position(RatOfInt(0), RatOfInt(0)))
    ELSE Position_truediv(
             CogLoop(Position(RatOfInt(0), RatOfInt(0)), c.shipments), weight(c))

\* Container.center_of_gravity
center_of_gravity(c) ==
    Position_truediv(CogLoop(Position(RatOfInt(0), RatOfInt(0)), c.shipments),
                     weight(c))

\* Mutant: the target is the centre of the container, (length/2, height/2).
optimal_center_of_gravity_centred(c) ==
    Position(Rat(c.length, 2), Rat(c.height, 2))

\* Container.optimal_center_of_gravity
optimal_center_of_gravity(c) ==
    Position(Rat(c.length, 2), RatOfInt(0))

\* Integer square root of a perfect square.
ISqrt(k) == CHOOSE r \in 0 .. k : r * r = k

\* sqrt(v ** 2) for a rational v in lowest terms.
SqrtOfSquare(v) == Rat(ISqrt(v.n * v.n), ISqrt(v.d * v.d))

\* Container.distance_optimal_cog: center_of_gravity is evaluated (and may
\* raise) before the square root is taken.
distance_optimal_cog(c) ==
    LET cog == center_of_gravity(c)
        opt == optimal_center_of_gravity(c)
    IN  IF ~cog.ok THEN cog
        ELSE Ok(SqrtOfSquare(
                 RatSub(RatAdd(RatSub(opt.x, cog.val.x), opt.y), cog.val.y)))

\* Mutant: the loop returns in its first iteration, so only the first entry
\* is tested.
check_ouf_bound_shipments_first_only(c) ==
    \/ c.shipments = <<>>
    \/ LET ps == c.shipments[1]
       IN  ~ (\/ ps.position.x < 0
              \/ ps.position.y < 0
              \/ ps.position.x + ps.shipment.length > c.length
              \/ ps.position.y + ps.shipment.height > c.height)

\* Container._check_ouf_bound_shipments
check_ouf_bound_shipments(c) ==
    \A i \in 1 .. Len(c.shipments) :
        LET ps == c.shipments[i]
        IN  ~ (\/ ps.position.x < 0
               \/ ps.position.y < 0
               \/ ps.position.x + ps.shipment.length > c.length
               \/ ps.position.y + ps.shipment.height > c.height)

\* The test of the inner loop of _check__non_overlapping_shipments.
Disjoint(shipment1, shipment2) ==
    LET x1_1 == shipment1.position.x
        y1_1 == shipment1.position.y
        x1_2 == x1_1 + shipment1.shipment.length
        y1_2 == y1_1 + shipment1.shipment.height
        x2_1 == shipment2.position.x
        y2_1 == shipment2.position.y
        x2_2 == x2_1 + shipment2.shipment.length
        y2_2 == y2_1 + shipment2.shipment.height
    IN  x1_2 <= x2_1 \/ x2_2 <= x1_1 \/ y1_2 <= y2_1 \/ y2_2 <= y1_1

\* Container._check__non_overlapping_shipments: the pairs are filtered with
\* the dataclass's generated __eq__ (field-wise equality), not identity.
check_non_overlapping_shipments(c) ==
    \A i \in 1 .. Len(c.shipments) :
        \A j \in 1 .. Len(c.shipments) :
            (c.shipments[i] # c.shipments[j])
                => Disjoint(c.shipments[i], c.shipments[j])

\* Container.valid
valid(c) ==
    check_ouf_bound_shipments(c) /\ check_non_overlapping_shipments(c)

\* The index a Python slice bound denotes in a dimension of size n
\* (slice.indices with step 1): negative bounds count from the end, and
\* bounds are clamped to 0..n.
SliceBound(v, n) == IF v < 0 THEN Max(v + n, 0) ELSE Min(v, n)

\* Index i of a dimension of size n is selected by the slice [start:stop].
InSlice(i, start, stop, n) ==
    SliceBound(start, n) <= i /\ i < SliceBound(stop, n)

\* np.int8 addition wraps modulo 2^8.
Int8Add(v, k) == ((v + k + Int8Half) % (2 * Int8Half)) - Int8Half

\* Container._update_map: self.map[x_start:x_end, y_start:y_end] += 1
update_map(c, ps) ==
    LET x_start == ps.position.x
        y_start == ps.position.y
        x_end == x_start + ps.shipment.length
        y_end == y_start + ps.shipment.height
    IN  [cell \in DOMAIN c.map |->
            IF /\ InSlice(cell[1], x_start, x_end, c.length)
               /\ InSlice(cell[2], y_start, y_end, c.height)
            THEN Int8Add(c.map[cell], 1) ELSE c.map[cell]]

\* Container.pack
pack(c, shipment, x, y) ==
    LET ps == PackedShipment(shipment, Position(x, y))
        appended == [c EXCEPT !.shipments = Append(c.shipments, ps)]
    IN  [appended EXCEPT !.map = update_map(appended, ps)]

\* -------------------------------------------------------------- actions
\* What a call leaves in ret: the operation and its outcome.
Returned(op, res) == [op |-> op, res |-> res]

\* The container's fields after a call that left it as the value c.
Becomes(c) ==
    /\ length' = c.length
    /\ height' = c.height
    /\ shipments' = c.shipments
    /\ map' = c.map

\* container = Container(l, h); no environment is constructed around it.
Init ==
    \E l \in 1 .. MaxLength, h \in 1 .. MaxHeight :
        /\ length = l
        /\ height = h
        /\ shipments = Container(l, h).shipments
        /\ map = Container(l, h).map
        /\ ret = Returned("__init__", Ok("None"))
        /\ env_shipments = <<>>
        /\ available_shipments = <<>>

\* container.pack(shipment, x, y)
Pack(shipment, x, y) ==
    /\ Becomes(pack(self, shipment, x, y))
    /\ ret' = Returned("pack", Ok("None"))
    /\ UNCHANGED <<env_shipments, available_shipments>>

\* Mutant: valid refreshes the grid from the last packed entry.
Get_valid_refreshing ==
    /\ ret' = Returned("valid", Ok(valid(self)))
    /\ map' = IF shipments = <<>> THEN map
              ELSE update_map(self, shipments[Len(shipments)])
    /\ UNCHANGED <<length, height, shipments>>
    /\ UNCHANGED <<env_shipments, available_shipments>>

\* container.valid
Get_valid ==
    /\ ret' = Returned("valid", Ok(valid(self)))
    /\ UNCHANGED <<length, height, shipments, map>>
    /\ UNCHANGED <<env_shipments, available_shipments>>

\* container.total_volume
Get_total_volume ==
    /\ ret' = Returned("total_volume", Ok(total_volume(self)))
    /\ UNCHANGED <<length, height, shipments, map>>
    /\ UNCHANGED <<env_shipments, available_shipments>>

\* container.remaining_volume
Get_remaining_volume ==
    /\ ret' = Returned("remaining_volume", Ok(remaining_volume(self)))
    /\ UNCHANGED <<length, height, shipments, map>>
    /\ UNCHANGED <<env_shipments, available_shipments>>

\* container.degree_of_filling
Get_degree_of_filling ==
    /\ ret' = Returned("degree_of_filling", degree_of_filling(self))
    /\ UNCHANGED <<length, height, shipments, map>>
    /\ UNCHANGED <<env_shipments, available_shipments>>

\* container.weight
Get_weight ==
    /\ ret' = Returned("weight", Ok(weight(self)))
    /\ UNCHANGED <<length, height, shipments, map>>
    /\ UNCHANGED <<env_shipments, available_shipments>>

\* container.center_of_gravity
Get_center_of_gravity ==
    /\ ret' = Returned("center_of_gravity", center_of_gravity(self))
    /\ UNCHANGED <<length, height, shipments, map>>
    /\ UNCHANGED <<env_shipments, available_shipments>>

\* container.optimal_center_of_gravity
Get_optimal_center_of_gravity ==
    /\ ret' = Returned("optimal_center_of_gravity",
                       Ok(optimal_center_of_gravity(self)))
    /\ UNCHANGED <<length, height, shipments, map>>
    /\ UNCHANGED <<env_shipments, available_shipments>>

\* container.distance_optimal_cog
Get_distance_optimal_cog ==
    /\ ret' = Returned("distance_optimal_cog", distance_optimal_cog(self))
    /\ UNCHANGED <<length, height, shipments, map>>
    /\ UNCHANGED <<env_shipments, available_shipments>>

\* Any query property.
Query ==
    \/ Get_valid
    \/ Get_total_volume
    \/ Get_remaining_volume
    \/ Get_degree_of_filling
    \/ Get_weight
    \/ Get_center_of_gravity
    \/ Get_optimal_center_of_gravity
    \/ Get_distance_optimal_cog

\* The driver packs any shipment at coordinates below, in, or reaching out
\* of the container.
DoPack ==
    \E s \in Shipments, x \in 0 .. length - 1, y \in -NegCoord .. height - 1 :
        /\ Len(shipments) < MaxPacks
        /\ Pack(s, x, y)

Next == DoPack

\* Sequences of pack calls.
Spec == Init /\ [][Next]_vars

\* The driver packs at coordinates further outside the grid, to its left
\* and to its right.
DoPackWide ==
    \E s \in Shipments, x \in -WideCoord .. length, y \in 0 .. height - 1 :
        /\ Len(shipments) < QueryPacks
        /\ Pack(s, x, y)

NextQuery == DoPackWide \/ Query

\* pack calls interleaved with queries.
SpecQuery == Init /\ [][NextQuery]_vars

\* The driver packs the same unit shipment at the origin again and again.
DoPackDeep ==
    /\ Len(shipments) < DeepPacks
    /\ Pack(Shipment(1, 1, 1, "a"), 0, 0)

NextDeep == DoPackDeep

\* Many shipments stacked on one cell.
SpecDeep == Init /\ [][NextDeep]_vars

\* -------------------------------------------------------- BinPackingEnv
\* The shipments an environment is built from: those of the container
\* driver and a weightless unit shipment.
EnvShipments == Shipments \cup { Shipment(1, 1, 0, "d") }

\* The lists of 1..n elements of S.
SeqsUpTo(S, n) == UNION { [1 .. k -> S] : k \in 1 .. n }

\* np.ones(num_shipments, dtype=np.int8)
ones(n) == [i \in 1 .. n |-> 1]

\* BinPackingEnv._get_observation
get_observation(c, env_ss, avail) ==
    [container_state |-> c.map,
     shipment_info |->
        [i \in 1 .. Len(env_ss) |->
            IF avail[i] # 0
            THEN <<env_ss[i].length, env_ss[i].height, env_ss[i].weight>>
            ELSE <<0, 0, 0>>]]

\* BinPackingEnv._calculate_reward: -1 for an invalid container, else
\* 0.5 * degree_of_filling + 0.5 * (1.0 / (1.0 + distance_optimal_cog));
\* an exception of either property propagates.
calculate_reward(c) ==
    IF ~valid(c) THEN Ok(RatOfInt(-1))
    ELSE LET dof == degree_of_filling(c)
             dist == distance_optimal_cog(c)
         IN  IF ~dof.ok THEN dof
             ELSE IF ~dist.ok THEN dist
             ELSE LET onePlus == RatAdd(RatOfInt(1), dist.val)
                      inverse == Rat(onePlus.d, onePlus.n)
                  IN  Ok(RatAdd(Rat(dof.val.n, 2 * dof.val.d),
                                Rat(inverse.n, 2 * inverse.d)))

\* BinPackingEnv._is_done: len() of the availability array, which is the
\* number of its entries whatever their values.
is_done(c, avail) == Len(avail) = 0 \/ ~valid(c)

\* The last call was a step that returned terminated = True.
Terminated == ret.op = "step" /\ ret.res.ok /\ ret.res.val.terminated

\* env = BinPackingEnv(Container(l, h), shipments): the container is
\* rebuilt from the dimensions and reset() is called.
InitEnv ==
    \E l \in 1 .. MaxLength, h \in 1 .. MaxHeight,
       ss \in SeqsUpTo(EnvShipments, MaxEnvShipments) :
        /\ length = l
        /\ height = h
        /\ shipments = Container(l, h).shipments
        /\ map = Container(l, h).map
        /\ env_shipments = ss
        /\ available_shipments = ones(Len(ss))
        /\ ret = Returned("__init__", Ok("None"))

\* env.reset()
Reset ==
    /\ Becomes(Container(length, height))
    /\ available_shipments' = ones(Len(env_shipments))
    /\ ret' = Returned("reset",
                  Ok(get_observation(Container(length, height), env_shipments,
                                     ones(Len(env_shipments)))))
    /\ UNCHANGED env_shipments

\* env.step((shipment_idx, x, y)): the shipment is packed and its flag
\* cleared before the reward is computed, so both stay when that raises.
Step(shipment_idx, x, y) ==
    LET shipment == env_shipments[shipment_idx + 1]
        packed == pack(self, shipment, x, y)
        avail == [available_shipments EXCEPT ![shipment_idx + 1] = 0]
        reward == calculate_reward(packed)
    IN  /\ Becomes(packed)
        /\ available_shipments' = avail
        /\ ret' = Returned("step",
                      IF ~reward.ok THEN reward
                      ELSE Ok([observation |->
                                   get_observation(packed, env_shipments, avail),
                               reward |-> reward.val,
                               terminated |-> is_done(packed, avail),
                               truncated |-> FALSE]))
        /\ UNCHANGED env_shipments

\* The agent draws an action from
\* MultiDiscrete([num_shipments, length, height]) until step returns
\* terminated = True.
DoStep ==
    \E idx \in 0 .. Len(env_shipments) - 1,
       x \in 0 .. length - 1, y \in 0 .. height - 1 :
        /\ ~Terminated
        /\ Len(shipments) < EnvSteps
        /\ Step(idx, x, y)

NextEnv == DoStep \/ Reset

\* Episodes of the environment.
SpecEnv == InitEnv /\ [][NextEnv]_vars

\* =============================================================== claims
\* Vocabulary of the claims, stated on the cells of the plane.

\* The cells [x, x+length) x [y, y+height) a packed entry covers.
Footprint(ps) ==
    (ps.position.x .. ps.position.x + ps.shipment.length - 1)
        \X (ps.position.y .. ps.position.y + ps.shipment.height - 1)

\* The entry lies fully inside the container.
InContainer(ps) ==
    /\ ps.position.x >= 0
    /\ ps.position.y >= 0
    /\ ps.position.x + ps.shipment.length <= length
    /\ ps.position.y + ps.shipment.height <= height

\* Every packed entry lies inside the container.
AllInContainer == \A i \in 1 .. Len(shipments) : InContainer(shipments[i])

\* Two entries at different places of the list cover a common cell.
SomeOverlap ==
    \E i, j \in 1 .. Len(shipments) :
        i # j /\ Footprint(shipments[i]) \cap Footprint(shipments[j]) # {}

\* The number of packed entries covering a cell.
Covering(cell) ==
    Cardinality({ i \in 1 .. Len(shipments) : cell \in Footprint(shipments[i]) })

\* The sum of term[i] for i in 1..n.
SumTo(term, n) ==
    LET S[k \in 0 .. n] == IF k = 0 THEN 0 ELSE S[k - 1] + term[k]
    IN  S[n]

\* The values pack is called with.
PackedEntries ==
    { PackedShipment(s, Position(x, y)) :
        s \in Shipments,
        x \in -WideCoord .. length,
        y \in -NegCoord .. height }

\* The step is a call of pack that appended the entry shipments'[Len + 1].
PackStep == ret'.op = "pack" /\ shipments' # shipments

\* ------------------------------------------------------------------ C1
\* C1: valid() is true iff every packed entry lies inside the container and
\* no two distinct list elements cover a common cell.
C1_ValidIffInsideAndDisjoint ==
    valid(self) <=> (AllInContainer /\ ~SomeOverlap)

\* C1, restricted to lists whose entries are pairwise different values.
C1_ValidIffForDifferentEntries ==
    (\A i, j \in 1 .. Len(shipments) : i # j => shipments[i] # shipments[j])
        => (valid(self) <=> (AllInContainer /\ ~SomeOverlap))

\* ------------------------------------------------------------------ C2
\* The frame of pack: it returns None, appends exactly one entry at the end,
\* keeps the earlier entries and the dimensions; the list never shrinks.
PackFrame ==
    /\ length' = length
    /\ height' = height
    /\ Len(shipments') >= Len(shipments)
    /\ SubSeq(shipments', 1, Len(shipments)) = shipments
    /\ ret'.op = "pack" =>
        /\ ret'.res = Ok("None")
        /\ Len(shipments') = Len(shipments) + 1
        /\ shipments'[Len(shipments')] \in PackedEntries

\* The entry appended by the step is out of bounds or shares a cell with an
\* earlier entry.
NewViolation ==
    LET new == shipments'[Len(shipments')]
    IN  \/ ~InContainer(new)
        \/ \E i \in 1 .. Len(shipments) :
               Footprint(shipments[i]) \cap Footprint(new) # {}

\* C2: pack never rejects: it appends exactly one entry, leaves the earlier
\* entries and the dimensions unchanged, and a violating placement is
\* reported by valid() being false afterwards.
C2_PackAppendsAndValidReports ==
    [][ /\ PackFrame
        /\ (PackStep /\ NewViolation) =>
               ~valid([self EXCEPT !.shipments = shipments', !.map = map'])
      ]_vars

\* C2 without the report through valid(): the frame alone.
C2_PackFrameOnly == [][PackFrame]_vars

\* ------------------------------------------------------------------ C3
\* C3: when all footprints lie inside the container, every grid cell holds
\* the number of packed entries covering it, however many they are.
C3_GridCountsCoveringShipments ==
    AllInContainer => \A cell \in DOMAIN map : map[cell] = Covering(cell)

\* C3 for fewer than 2^7 entries on a cell.
C3_GridCountsBelowInt8Max ==
    AllInContainer =>
        \A cell \in DOMAIN map :
            Covering(cell) < Int8Half => map[cell] = Covering(cell)

\* ------------------------------------------------------------------ C4
\* C4: a pack whose footprint leaves the grid changes only cells inside the
\* footprint, each by one; no cell outside the footprint changes.
C4_OnlyFootprintCellsChange ==
    [][ PackStep =>
          \A cell \in DOMAIN map :
              map'[cell] # map[cell] =>
                  /\ cell \in Footprint(shipments'[Len(shipments')])
                  /\ map'[cell] = map[cell] + 1
      ]_vars

\* ------------------------------------------------------------------ C5
\* The sum of length * height over the packed entries.
PackedArea ==
    SumTo([i \in 1 .. Len(shipments) |->
              shipments[i].shipment.length * shipments[i].shipment.height],
          Len(shipments))

\* C5: remaining_volume is length * height minus the summed areas of the
\* packed entries (possibly negative), degree_of_filling is
\* remaining_volume / total_volume, and an empty container has
\* remaining_volume = total_volume and degree_of_filling = 1.
C5_VolumeAccounting ==
    LET dof == degree_of_filling(self)
    IN  /\ remaining_volume(self) = length * height - PackedArea
        /\ dof.ok
        /\ dof.val.d > 0
        /\ dof.val.n * total_volume(self) = remaining_volume(self) * dof.val.d
        /\ shipments = <<>> =>
               /\ remaining_volume(self) = total_volume(self)
               /\ dof.val = [n |-> 1, d |-> 1]

\* Overlapping or oversized entries have driven remaining_volume below 0.
C5_Witness ==
    /\ Len(shipments) = 2
    /\ remaining_volume(self) < 0
    /\ degree_of_filling(self).val.n < 0

\* ------------------------------------------------------------------ C6
\* The sum of the weights of the packed entries.
TotalWeight ==
    SumTo([i \in 1 .. Len(shipments) |-> shipments[i].shipment.weight],
          Len(shipments))

\* Twice the weighted sum of the entries' centres along x and along y.
MomentX2 ==
    SumTo([i \in 1 .. Len(shipments) |->
              (2 * shipments[i].position.x + shipments[i].shipment.length)
                  * shipments[i].shipment.weight],
          Len(shipments))

MomentY2 ==
    SumTo([i \in 1 .. Len(shipments) |->
              (2 * shipments[i].position.y + shipments[i].shipment.height)
                  * shipments[i].shipment.weight],
          Len(shipments))

\* The rational q equals num / den (den # 0).
IsQuotient(q, num, den) == q.d > 0 /\ q.n * den = num * q.d

\* C6: with at least one entry and positive total weight, center_of_gravity
\* is sum((x + length/2, y + height/2) * weight) / sum(weight); for a single
\* entry at (0,0) it is (length/2, height/2) whatever its weight.
C6_CenterOfGravityIsWeightedMean ==
    (Len(shipments) >= 1 /\ TotalWeight > 0) =>
        LET cog == center_of_gravity(self)
        IN  /\ cog.ok
            /\ IsQuotient(cog.val.x, MomentX2, 2 * TotalWeight)
            /\ IsQuotient(cog.val.y, MomentY2, 2 * TotalWeight)
            /\ (Len(shipments) = 1 /\ shipments[1].position = Position(0, 0)) =>
                   /\ IsQuotient(cog.val.x, shipments[1].shipment.length, 2)
                   /\ IsQuotient(cog.val.y, shipments[1].shipment.height, 2)

\* Two entries of different positive weights at different places.
C6_Witness ==
    /\ Len(shipments) = 2
    /\ shipments[1].shipment.weight > 0
    /\ shipments[2].shipment.weight > shipments[1].shipment.weight
    /\ shipments[1].position # shipments[2].position
    /\ center_of_gravity(self).ok

\* ------------------------------------------------------------------ C8
\* C8: when the centre of gravity (cx, cy) is defined, distance_optimal_cog
\* is |(length/2 - cx) + (0 - cy)|, and it is 0 when the centre of gravity
\* is the optimal one, (length/2, 0).
C8_DistanceIsAbsOfSummedDeltas ==
    LET cog == center_of_gravity(self)
        dist == distance_optimal_cog(self)
    IN  cog.ok =>
            LET cx == cog.val.x
                cy == cog.val.y
                \* (length/2 - cx) + (0 - cy) = num / den
                num == length * cx.d * cy.d - 2 * cx.n * cy.d - 2 * cy.n * cx.d
                den == 2 * cx.d * cy.d
            IN  /\ dist.ok
                /\ dist.val.n >= 0
                /\ IsQuotient(dist.val, Abs(num), den)
                /\ (IsQuotient(cx, length, 2) /\ cy.n = 0) => dist.val.n = 0

\* The centre of gravity is the optimal one.
C8_Witness ==
    /\ Len(shipments) >= 1
    /\ center_of_gravity(self).ok
    /\ center_of_gravity(self).val = [x |-> Rat(length, 2), y |-> RatOfInt(0)]
    /\ distance_optimal_cog(self).val.n = 0

\* ------------------------------------------------------------------ C7
\* The queries that need the centre of gravity.
CogQueries == {"center_of_gravity", "distance_optimal_cog"}

\* No entry is packed, or the packed entries weigh 0 in total.
Degenerate == shipments = <<>> \/ TotalWeight = 0

\* C7: on a container that is empty or of total weight zero,
\* center_of_gravity and distance_optimal_cog fail with an error at the call
\* instead of returning a position, and the call leaves the shipment list
\* and the grid unchanged.
C7_DegenerateCogRaises ==
    /\ [](Degenerate =>
            /\ ~center_of_gravity(self).ok
            /\ ~distance_optimal_cog(self).ok
            /\ ret.op \in CogQueries => ret.res = Raise("ZeroDivisionError"))
    /\ [][(ret'.op \in CogQueries /\ ~ret'.res.ok) =>
              /\ Degenerate
              /\ UNCHANGED <<length, height, shipments, map>>]_vars

\* center_of_gravity has just failed on a container holding one entry of
\* weight zero.
C7_Witness ==
    /\ Len(shipments) = 1
    /\ shipments[1].shipment.weight = 0
    /\ ret = Returned("center_of_gravity", Raise("ZeroDivisionError"))

\* ------------------------------------------------------------------ C9
\* The bijections of 1..n.
Orders(n) ==
    { p \in [1 .. n -> 1 .. n] : \A i, j \in 1 .. n : p[i] = p[j] => i = j }

\* The container after packing the entries of ss, in order, into c.
RECURSIVE PackAll(_, _)
PackAll(c, ss) ==
    IF ss = <<>> THEN c
    ELSE PackAll(pack(c, Head(ss).shipment,
                      Head(ss).position.x, Head(ss).position.y),
                 Tail(ss))

\* C9: packing the same placements into an equal empty container in any
\* other order gives the same weight (the sum of the shipments' weights),
\* the same valid(), the same remaining_volume and the same grid.
C9_PackOrderIrrelevant ==
    /\ weight(self) = TotalWeight
    /\ \A p \in Orders(Len(shipments)) :
           LET other == PackAll(Container(length, height),
                                [i \in 1 .. Len(shipments) |-> shipments[p[i]]])
           IN  /\ weight(other) = weight(self)
               /\ valid(other) = valid(self)
               /\ remaining_volume(other) = remaining_volume(self)
               /\ other.map = map

\* Two different placements, one inside and one sticking out: their two
\* orders are different lists.
C9_Witness ==
    /\ Len(shipments) = 2
    /\ InContainer(shipments[1])
    /\ ~InContainer(shipments[2])
    /\ Footprint(shipments[1]) \cap Footprint(shipments[2]) # {}
    /\ ~valid(self)

\* ----------------------------------------------------------------- C10
\* The names of the query properties.
QueryOps ==
    {"valid", "total_volume", "remaining_volume", "degree_of_filling",
     "weight", "center_of_gravity", "optimal_center_of_gravity",
     "distance_optimal_cog"}

\* What each query returns on the container c.
Answers(c) ==
    <<valid(c), total_volume(c), remaining_volume(c), degree_of_filling(c),
      weight(c), center_of_gravity(c), optimal_center_of_gravity(c),
      distance_optimal_cog(c)>>

\* C10: a query leaves the shipment list, the positions, the grid and the
\* dimensions unchanged, every query answers after it what it answered
\* before it, and asking the same query again returns the same result.
C10_QueriesArePure ==
    [][ret'.op \in QueryOps =>
          /\ UNCHANGED <<length, height, shipments, map>>
          /\ Answers([length |-> length', height |-> height',
                      shipments |-> shipments', map |-> map'])
                 = Answers(self)
          /\ ret.op = ret'.op => ret'.res = ret.res
      ]_vars

\* A query has answered on a container with a packed entry.
C10_Witness ==
    /\ Len(shipments) = 1
    /\ ret.op = "distance_optimal_cog"
    /\ ret.res.ok
    /\ ret.res = distance_optimal_cog(self)

\* No shipment of the environment is left available.
NoneAvailable ==
    \A i \in 1 .. Len(available_shipments) : available_shipments[i] = 0

\* This step is a step call that returned.
StepReturned ==
    /\ \E idx \in 0 .. Len(env_shipments) - 1,
          x \in 0 .. length - 1, y \in 0 .. height - 1 : Step(idx, x, y)
    /\ ret'.res.ok

\* This step is a step call that returned and that selected a shipment
\* whose availability flag was already cleared.
RepackReturned ==
    /\ \E idx \in 0 .. Len(env_shipments) - 1,
          x \in 0 .. length - 1, y \in 0 .. height - 1 :
           available_shipments[idx + 1] = 0 /\ Step(idx, x, y)
    /\ ret'.res.ok

\* C11: every episode ends -- a step that returns with no shipment left
\* available afterwards, or with the container invalid after the pack,
\* returns terminated = true, and so does a step that packs a shipment
\* already marked unavailable.
C11_EpisodeEnds ==
    [][/\ StepReturned =>
              ((NoneAvailable' \/ ~valid(self')) => ret'.res.val.terminated)
       /\ RepackReturned => ret'.res.val.terminated]_vars

\* C11, what the code does: a step that returns answers terminated = true
\* exactly when the container is invalid after the pack.
C11_TerminatedIffInvalid ==
    [][StepReturned => (ret'.res.val.terminated <=> ~valid(self'))]_vars

====
